---- MODULE Spec2Model ----
(***************************************************************************)
(* Cognitive-assessment mini-games: the invisible maze                     *)
(* (components/InvisibleMazeGame) and the arrow path puzzle                *)
(* (components/PathPuzzleGame) as state machines over their React state.   *)
(*                                                                         *)
(* Every React event handler (click, keydown, interval callback, timeout   *)
(* callback) is one atomic action: the handler runs to completion, React   *)
(* commits the batched state updates and re-registers the effects before   *)
(* the next event is delivered.  Math.random() is a nondeterministic       *)
(* choice.                                                                 *)
(***************************************************************************)
EXTENDS Integers, Sequences, FiniteSets, TLC

\* ------------------------------------------------------------------------
\* Bounds of the model (not program constants).
\* ------------------------------------------------------------------------

\* Math.random() for the key and door draws only yields the CellPool cells
\* nearest to the start corner (the start cell itself is the nearest).
CellPool == 4

\* Math.random() for the wall draws only yields the EdgePool edges nearest
\* to the cell above the start corner.
EdgePool == 3

\* Path puzzle: the (typeIdx, rotation) draws of one generated grid repeat
\* with this period in row-major order.
TileDrawPeriod == 1

\* Path puzzle: Math.random() for startRow and endRow only yields the first
\* RowPool rows.
RowPool == 2

\* Path puzzle: the player only selects the first SelectPool tiles, in
\* row-major order.
SelectPool == 2

\* Path puzzle: rotate and retype are only modelled while moveCount < MaxMoves.
MaxMoves == 2

\* Path puzzle: Next Level is only modelled while level < MaxLevel.
MaxLevel == 2

\* The tile-rotation runs apply handleRotate's tile update MaxRotations times.
MaxRotations == 4

\* The runs of checkPath on freshly drawn grids draw each tile from the
\* first CheckTypePool archetypes in the order Cross, Straight, Corner, Tee.
CheckTypePool == 2

\* The runs of hasPath on its own take their walls from the QueryWallPool
\* edges nearest the cell above the start corner, in either key orientation.
QueryWallPool == 3

\* generateBubbles run on its own: Math.random() in the shuffle yields the
\* ShufflePool lowest indices, rand(min, max) the RandPool lowest and the
\* RandPool highest values of its range.
ShufflePool == 4

RandPool == 1

\* The questions of the bubble sort game are drawn with the shuffle
\* yielding its GameShufflePool lowest indices and rand(min, max) the
\* GameRandPool lowest and highest values of its range.
GameShufflePool == 1

GameRandPool == 1

\* At most MaxPending 300 ms timeouts are pending at a time, and at most
\* ClicksWhilePending clicks are handled while one is.
MaxPending == 2

ClicksWhilePending == 2

\* generateBubbles run on its own: an iteration of the bubble loop draws a
\* value already used at most MaxRejections times.
MaxRejections == 1

\* The runs of the path puzzle's level initialisation on its own start
\* from levels 1 .. LevelPool.
LevelPool == 21

\* A wall hit is only modelled while attempts < MaxAttempts.
MaxAttempts == 2

\* At most KeysWhilePending key presses are handled between a Next Level
\* click and the run of the 50 ms timeout it scheduled.
KeysWhilePending == 0

\* User input reaches the maze only every TickSeconds seconds: the Tick
\* action is TickSeconds consecutive firings of the one-second interval.
TickSeconds == 60

\* ------------------------------------------------------------------------
\* Invisible maze: constants and pure functions
\* ------------------------------------------------------------------------

LEVELS ==
  << [id |-> 1, name |-> "Easy",   gridSize |-> 3, wallCount |-> 2,  timeLimit |-> 60],
     [id |-> 2, name |-> "Medium", gridSize |-> 4, wallCount |-> 6,  timeLimit |-> 90],
     [id |-> 3, name |-> "Hard",   gridSize |-> 5, wallCount |-> 12, timeLimit |-> 120] >>

\* levelIdx is 0-based in the code; LEVELS[levelIdx] there is Level(levelIdx) here.
LevelIdxs == 0 .. (Len(LEVELS) - 1)

Level(idx) == LEVELS[idx + 1]

\* while (!validMaze && attemptsCount < 500)
MaxGenAttempts == 500

\* while (count < currentLevel.wallCount && safety < 100)
MaxWallDraws == 100

Pos(r, c) == [r |-> r, c |-> c]

\* const startPos = { r: size - 1, c: 0 }
StartPos(size) == Pos(size - 1, 0)

Cells(size) == { Pos(r, c) : r \in 0 .. (size - 1), c \in 0 .. (size - 1) }

\* [a.r, a.c, b.r, b.c].join(','): the four numbers in this order; the
\* joined string of four integers determines the four integers.
WallKey(a, b) == << a.r, a.c, b.r, b.c >>

InBounds(size, r, c) == r >= 0 /\ r < size /\ c >= 0 /\ c < size

\* const dirs = [[0,1], [0,-1], [1,0], [-1,0]]; // R, L, D, U
dirs == << <<0, 1>>, <<0, -1>>, <<1, 0>>, <<-1, 0>> >>

\* NoWallBetween looking up wallKey only.
NoWallBetween_ForwardOnly(ws, a, b) == WallKey(a, b) \notin ws

\* !walls.has(wallKey) && !walls.has(reverseKey)
NoWallBetween(ws, a, b) == WallKey(a, b) \notin ws /\ WallKey(b, a) \notin ws

\* The body of `for (const [dr, dc] of dirs)` for directions i..4: returns
\* the queue and the visited set after the remaining directions.
RECURSIVE ExpandDirs(_, _, _, _, _, _)
ExpandDirs(size, ws, curr, i, q, visited) ==
  IF i > Len(dirs) THEN << q, visited >>
  ELSE LET nr == curr.r + dirs[i][1]
           nc == curr.c + dirs[i][2]
           nxt == Pos(nr, nc)
       IN IF InBounds(size, nr, nc) /\ NoWallBetween(ws, curr, nxt) /\ nxt \notin visited
          THEN ExpandDirs(size, ws, curr, i + 1, Append(q, nxt), visited \cup {nxt})
          ELSE ExpandDirs(size, ws, curr, i + 1, q, visited)

\* while (q.length > 0) { const curr = q.shift(); ... }
RECURSIVE BfsLoop(_, _, _, _, _)
BfsLoop(size, ws, end, q, visited) ==
  IF Len(q) = 0 THEN FALSE
  ELSE LET curr == Head(q)
       IN IF curr = end THEN TRUE
          ELSE LET nx == ExpandDirs(size, ws, curr, 1, Tail(q), visited)
               IN BfsLoop(size, ws, end, nx[1], nx[2])

hasPath(size, ws, start, end) == BfsLoop(size, ws, end, << start >>, {start})

\* ------------------------------------------------------------------------
\* Invisible maze: the random draws of initLevel
\* ------------------------------------------------------------------------

\* Distance of a cell from the start corner (size-1, 0).
CornerDist(size, cell) == (size - 1 - cell.r) + cell.c

\* Number of cells strictly nearer to the start corner (ties by column).
CellRank(size, cell) ==
  Cardinality({ x \in Cells(size) :
                  \/ CornerDist(size, x) < CornerDist(size, cell)
                  \/ CornerDist(size, x) = CornerDist(size, cell) /\ x.c < cell.c })

\* { r: Math.floor(Math.random() * size), c: Math.floor(Math.random() * size) }
CellDraws(size) == { x \in Cells(size) : CellRank(size, x) < CellPool }

\* One wall draw: isVertical picks the (r1,c1)-(r1,c1+1) edges, otherwise
\* the (r1,c1)-(r1+1,c1) edges; wallId = [r1, c1, r2, c2].join(',').
AllWallDraws(size) ==
  { [a |-> Pos(r1, c1), b |-> Pos(r1, c1 + 1), isVertical |-> TRUE] :
      r1 \in 0 .. (size - 1), c1 \in 0 .. (size - 2) }
  \cup
  { [a |-> Pos(r1, c1), b |-> Pos(r1 + 1, c1), isVertical |-> FALSE] :
      r1 \in 0 .. (size - 2), c1 \in 0 .. (size - 1) }

\* Distance of a wall draw from the cell above the start corner, the cell
\* whose three edges the nearest draws are.
HotCell(size) == Pos(size - 2, 0)

CellDist(x, y) ==
  (IF x.r >= y.r THEN x.r - y.r ELSE y.r - x.r) + (IF x.c >= y.c THEN x.c - y.c ELSE y.c - x.c)

DrawDist(size, d) == CellDist(d.a, HotCell(size)) + CellDist(d.b, HotCell(size))

\* Nearer draws first; ties by lower row first, then left column, then
\* the (r1,c1)-(r1+1,c1) edge.
DrawBefore(size, x, y) ==
  \/ DrawDist(size, x) < DrawDist(size, y)
  \/ /\ DrawDist(size, x) = DrawDist(size, y)
     /\ \/ x.a.r > y.a.r
        \/ x.a.r = y.a.r /\ x.a.c < y.a.c
        \/ x.a.r = y.a.r /\ x.a.c = y.a.c /\ ~x.isVertical /\ y.isVertical

WallDraws(size) ==
  { d \in AllWallDraws(size) :
      Cardinality({ x \in AllWallDraws(size) : DrawBefore(size, x, d) }) < EdgePool }

\* PlaceWall storing a second draw of an edge under its reverse key.
PlaceWall_AddsReverse(ws, d) ==
  IF WallKey(d.a, d.b) \notin ws
  THEN ws \cup { WallKey(d.a, d.b) }
  ELSE ws \cup { WallKey(d.b, d.a) }

\* One iteration of the wall-placement loop on newWalls = ws with draw d:
\* if (!newWalls.has(wallId) && !newWalls.has(reverseWallId)) newWalls.add(wallId)
PlaceWall(ws, d) ==
  IF WallKey(d.a, d.b) \notin ws /\ WallKey(d.b, d.a) \notin ws
  THEN ws \cup { WallKey(d.a, d.b) }
  ELSE ws

\* The wall sets the loop `while (count < wallCount && safety < 100)` can
\* hold after iteration `safety`, from the sets in `reach`; count is the
\* number of walls placed, which the code keeps equal to newWalls.size.
\* Once an iteration adds no new set, the remaining iterations add none.
RECURSIVE WallLoop(_, _, _, _)
WallLoop(size, wallCount, safety, reach) ==
  LET step == { ws \in reach : ~(Cardinality(ws) < wallCount) }
              \cup { PlaceWall(ws, d) :
                       ws \in { w \in reach : Cardinality(w) < wallCount },
                       d \in WallDraws(size) }
  IN IF safety >= MaxWallDraws \/ step = reach THEN reach
     ELSE WallLoop(size, wallCount, safety + 1, step)

GenWalls(size, wallCount) == WallLoop(size, wallCount, 0, { {} })

\* do { kR, kC } while (kR === startPos.r && kC === startPos.c)
KeyDraws(size) == { k \in CellDraws(size) : k # StartPos(size) }

\* do { dR, dC } while (door is start || door is key)
DoorDraws(size, k) == { d \in CellDraws(size) : d # StartPos(size) /\ d # k }

\* tempKeyPos, tempDoorPos and newWalls of one generation attempt
Candidates(idx) ==
  LET size == Level(idx).gridSize
  IN UNION { { [tempKeyPos |-> k, tempDoorPos |-> d, newWalls |-> ws] :
                 d \in DoorDraws(size, k),
                 ws \in GenWalls(size, Level(idx).wallCount) } :
             k \in KeyDraws(size) }


\* Solvable with the key-to-door check forgotten.
Solvable_KeyOnly(size, cand) ==
  hasPath(size, cand.newWalls, StartPos(size), cand.tempKeyPos)

\* if (hasPath(size, newWalls, startPos, tempKeyPos) &&
\*     hasPath(size, newWalls, tempKeyPos, tempDoorPos))
Solvable(size, cand) ==
  /\ hasPath(size, cand.newWalls, StartPos(size), cand.tempKeyPos)
  /\ hasPath(size, cand.newWalls, cand.tempKeyPos, cand.tempDoorPos)

\* The locals of initLevel before the first attempt.
NoGen == [validMaze |-> FALSE, ran |-> FALSE,
          tempKeyPos |-> Pos(0, 0), tempDoorPos |-> Pos(0, 0), newWalls |-> {}]

\* One attempt of the generation loop with candidate cand.
Attempt(size, cand) ==
  [validMaze |-> Solvable(size, cand), ran |-> TRUE,
   tempKeyPos |-> cand.tempKeyPos, tempDoorPos |-> cand.tempDoorPos,
   newWalls |-> cand.newWalls]

\* while (!validMaze && attemptsCount < 500): the locals the loop can hold
\* after attemptsCount attempts, from the ones in `reach`.  Once an attempt
\* adds no new outcome, the remaining attempts add none.
RECURSIVE GenLoop(_, _, _)
GenLoop(idx, attemptsCount, reach) ==
  LET step == { g \in reach : g.validMaze }
              \cup { Attempt(Level(idx).gridSize, cand) :
                       cand \in IF \E g \in reach : ~g.validMaze
                                THEN Candidates(idx) ELSE {} }
  IN IF attemptsCount >= MaxGenAttempts \/ step = reach THEN reach
     ELSE GenLoop(idx, attemptsCount + 1, step)

\* The locals initLevel can end with, per level (evaluated once).
GenOutcomes == [ idx \in LevelIdxs |-> GenLoop(idx, 0, { NoGen }) ]

\* ------------------------------------------------------------------------
\* The arrow path puzzle (PathPuzzleGame): constants and pure functions.
\* ------------------------------------------------------------------------

\* Connections are <<Up, Right, Down, Left>>.
TILE_TYPES ==
  << [name |-> "Straight", connections |-> << TRUE, FALSE, TRUE, FALSE >>],
     [name |-> "Corner",   connections |-> << TRUE, TRUE, FALSE, FALSE >>],
     [name |-> "Tee",      connections |-> << FALSE, TRUE, TRUE, TRUE >>],
     [name |-> "Cross",    connections |-> << TRUE, TRUE, TRUE, TRUE >>] >>

\* Math.floor(Math.random() * TILE_TYPES.length), as a 1-based index.
TypeIdxs == 1 .. Len(TILE_TYPES)

\* Math.floor(Math.random() * 4) * 90
Rotations == { 0, 90, 180, 270 }

\* SizeOfLevel with `>=` for `>` in the two comparisons.
SizeOfLevel_FromTen(lvl) == IF lvl >= 20 THEN 5 ELSE IF lvl >= 10 THEN 4 ELSE 3

\* let size = 3; if (lvl > 10) size = 4; if (lvl > 20) size = 5;
SizeOfLevel(lvl) == IF lvl > 20 THEN 5 ELSE IF lvl > 10 THEN 4 ELSE 3

\* let time = 0; if (!isPractice) { 60 / 90 / 120 by size }
TimeOfSize(size, isPractice) ==
  IF isPractice THEN 0
  ELSE IF size = 3 THEN 60 ELSE IF size = 4 THEN 90 ELSE 120

\* selectedTileId === null
NoTile == [r |-> 0 - 1, c |-> 0 - 1]

\* newTiles.push({ id, r, c, connections: [...TILE_TYPES[typeIdx].connections],
\*                 rotation })
NewTile(typeIdx, rotation) ==
  [connections |-> TILE_TYPES[typeIdx].connections, rotation |-> rotation]

\* The (typeIdx, rotation) pairs one tile can draw.
TileDraws == { << typeIdx, rotation >> : typeIdx \in TypeIdxs, rotation \in Rotations }

\* The grids the two nested loops can build: tile (r, c) is the (r*size+c)-th
\* pair of draws.
NewTiles(size) ==
  { [cell \in Cells(size) |->
       LET d == draws[((cell.r * size + cell.c) % TileDrawPeriod) + 1]
       IN NewTile(d[1], d[2])] :
    draws \in [1 .. TileDrawPeriod -> TileDraws] }

\* Math.floor(Math.random() * size)
RowDraws(size) == { row \in 0 .. (size - 1) : row < RowPool }

\* RotateConnections turning the other way: [u, r, d, l] -> [r, d, l, u].
RotateConnections_CounterClockwise(conn) == << conn[2], conn[3], conn[4], conn[1] >>

\* const [u, r, d, l] = t.connections; connections: [l, u, r, d]
RotateConnections(conn) == << conn[4], conn[1], conn[2], conn[3] >>

\* RotatedTile without the `% 360`.
RotatedTile_NoWrap(t) ==
  [connections |-> RotateConnections(t.connections), rotation |-> t.rotation + 90]

\* The tile handleRotate puts in place of the selected one.
RotatedTile(t) ==
  [connections |-> RotateConnections(t.connections),
   rotation |-> (t.rotation + 90) % 360]

\* SwappedTile with `rotation: 90` for `rotation: 0`.
SwappedTile_Rotation90(typeIdx) ==
  [connections |-> TILE_TYPES[typeIdx].connections, rotation |-> 90]

\* The tile handleSwapType puts in place of the selected one.
SwappedTile(typeIdx) ==
  [connections |-> TILE_TYPES[typeIdx].connections, rotation |-> 0]

\* The tiles the player clicks on.
Selectable(size) == { cell \in Cells(size) : cell.r * size + cell.c < SelectPool }

\* tiles.find(t => t.r === r && t.c === c) succeeds
HasTile(ts, cell) == cell \in DOMAIN ts

\* Pushes without the test of the neighbour's own flag.
Pushes_OneSided(ts, current) ==
  LET conn == ts[current].connections
      up    == Pos(current.r - 1, current.c)
      right == Pos(current.r, current.c + 1)
      down  == Pos(current.r + 1, current.c)
      left  == Pos(current.r, current.c - 1)
  IN (IF conn[1] /\ HasTile(ts, up) THEN << up >> ELSE << >>)
     \o (IF conn[2] /\ HasTile(ts, right) THEN << right >> ELSE << >>)
     \o (IF conn[3] /\ HasTile(ts, down) THEN << down >> ELSE << >>)
     \o (IF conn[4] /\ HasTile(ts, left) THEN << left >> ELSE << >>)

\* The neighbours checkPath pushes for `current`, in the order Up, Right,
\* Down, Left: the flag towards the neighbour is open on both tiles.
Pushes(ts, current) ==
  LET conn == ts[current].connections
      up    == Pos(current.r - 1, current.c)
      right == Pos(current.r, current.c + 1)
      down  == Pos(current.r + 1, current.c)
      left  == Pos(current.r, current.c - 1)
  IN (IF conn[1] /\ HasTile(ts, up) /\ ts[up].connections[3] THEN << up >> ELSE << >>)
     \o (IF conn[2] /\ HasTile(ts, right) /\ ts[right].connections[4] THEN << right >> ELSE << >>)
     \o (IF conn[3] /\ HasTile(ts, down) /\ ts[down].connections[1] THEN << down >> ELSE << >>)
     \o (IF conn[4] /\ HasTile(ts, left) /\ ts[left].connections[2] THEN << left >> ELSE << >>)

\* while (stack.length > 0) { const current = stack.pop()!; ... }
RECURSIVE DfsLoop(_, _, _, _, _)
DfsLoop(ts, size, eRow, stack, visited) ==
  IF stack = << >> THEN FALSE
  ELSE LET current == stack[Len(stack)]
           rest == SubSeq(stack, 1, Len(stack) - 1)
       IN IF current \in visited THEN DfsLoop(ts, size, eRow, rest, visited)
          ELSE IF current.r = eRow /\ current.c = size - 1 /\ ts[current].connections[2]
               THEN TRUE
               ELSE DfsLoop(ts, size, eRow, rest \o Pushes(ts, current),
                            visited \cup { current })

\* CheckOutcome without the test of the start tile's Left flag.
CheckOutcome_NoStartTest(ts, size, sRow, eRow) ==
  IF DfsLoop(ts, size, eRow, << Pos(sRow, 0) >>, {}) THEN "success" ELSE "nopath"

\* The outcome of checkPath on a grid.
CheckOutcome(ts, size, sRow, eRow) ==
  LET startTile == Pos(sRow, 0)
  IN IF ~HasTile(ts, startTile) \/ ~ts[startTile].connections[4] THEN "nostart"
     ELSE IF DfsLoop(ts, size, eRow, << startTile >>, {}) THEN "success"
     ELSE "nopath"

\* ------------------------------------------------------------------------
\* Bubble sort (BubbleSortGame): generateBubbles
\* ------------------------------------------------------------------------

\* const opTypes = [0, 1, 2, 3]: 0 addition, 1 subtraction, 2 multiplication,
\* 3 division.
OpTypes == << 0, 1, 2, 3 >>

\* rand(min, max) = Math.floor(Math.random() * (max - min + 1)) + min, of
\* which the `pool` lowest and the `pool` highest values are drawn.
rand(min, max, pool) == { x \in min .. max : x - min < pool \/ max - x < pool }

\* [opTypes[i], opTypes[j]] = [opTypes[j], opTypes[i]], i and j 0-based.
SwapOps(ops, i, j) ==
  [ k \in 1 .. Len(ops) |->
      IF k = i + 1 THEN ops[j + 1] ELSE IF k = j + 1 THEN ops[i + 1] ELSE ops[k] ]

\* const j = Math.floor(Math.random() * (i + 1)), the `pool` lowest values.
ShuffleDraws(i, pool) == { j \in 0 .. i : j < pool }

\* for (let i = opTypes.length - 1; i > 0; i--): the orders the array can
\* have once the iterations i, i-1, .., 1 have run on the orders in reach.
RECURSIVE ShuffleLoop(_, _, _)
ShuffleLoop(i, reach, pool) ==
  IF i <= 0 THEN reach
  ELSE ShuffleLoop(i - 1,
                   { SwapOps(ops, i, j) : ops \in reach, j \in ShuffleDraws(i, pool) },
                   pool)

\* The template literal `${a}+${b}`: the decimal numerals of a and b around
\* the operator sign; the string determines the two numbers and the sign.
Display(a, sign, b) == [a |-> a, sign |-> sign, b |-> b]

\* SlotDraws with the subtraction's minuend drawn from b .. b + 25.
SlotDraws_ZeroDifference(opType, pool) ==
  IF opType = 0
  THEN { [value |-> a + b, display |-> Display(a, "+", b)] :
           a \in rand(2, 25, pool), b \in rand(2, 25, pool) }
  ELSE IF opType = 1
  THEN UNION { { [value |-> a - b, display |-> Display(a, "-", b)] :
                   a \in rand(b, b + 25, pool) } : b \in rand(2, 20, pool) }
  ELSE IF opType = 2
  THEN { [value |-> a * b, display |-> Display(a, "x", b)] :
           a \in rand(2, 12, pool), b \in rand(2, 9, pool) }
  ELSE { [value |-> res, display |-> Display(b * res, "/", b)] :
           b \in rand(2, 9, pool), res \in rand(2, 12, pool) }

\* The val and disp one iteration of the bubble loop can compute for opType.
SlotDraws(opType, pool) ==
  IF opType = 0
  THEN { [value |-> a + b, display |-> Display(a, "+", b)] :
           a \in rand(2, 25, pool), b \in rand(2, 25, pool) }
  ELSE IF opType = 1
  THEN UNION { { [value |-> a - b, display |-> Display(a, "-", b)] :
                   a \in rand(b + 1, b + 25, pool) } : b \in rand(2, 20, pool) }
  ELSE IF opType = 2
  THEN { [value |-> a * b, display |-> Display(a, "x", b)] :
           a \in rand(2, 12, pool), b \in rand(2, 9, pool) }
  ELSE { [value |-> res, display |-> Display(b * res, "/", b)] :
           b \in rand(2, 9, pool), res \in rand(2, 12, pool) }

\* The locals of the bubble loop: i, usedValues and bubbles.
NoBubbles == [i |-> 0, usedValues |-> {}, bubbles |-> << >>]

\* SlotStep without the usedValues test.
SlotStep_NoDuplicateTest(st, draw) ==
  [i |-> st.i + 1,
   usedValues |-> st.usedValues \cup { draw.value },
   bubbles |-> Append(st.bubbles,
                      [id |-> Len(st.bubbles) + 1, value |-> draw.value,
                       display |-> draw.display])]

\* SlotStep moving on to the next slot after a duplicate value.
SlotStep_SkipsDuplicate(st, draw) ==
  IF draw.value \in st.usedValues
  THEN [st EXCEPT !.i = @ + 1]
  ELSE [i |-> st.i + 1,
        usedValues |-> st.usedValues \cup { draw.value },
        bubbles |-> Append(st.bubbles,
                           [id |-> Len(st.bubbles) + 1, value |-> draw.value,
                            display |-> draw.display])]

\* One iteration of `for (let i = 0; i < 3; i++)` with the val and disp of
\* draw: if (usedValues.has(val)) { i--; continue; } leaves i as it was
\* after the loop's i++; otherwise the bubble is pushed.  id is Math.random():
\* the ids of one set are distinct, the position stands for them.
SlotStep(st, draw) ==
  IF draw.value \in st.usedValues
  THEN st
  ELSE [i |-> st.i + 1,
        usedValues |-> st.usedValues \cup { draw.value },
        bubbles |-> Append(st.bubbles,
                           [id |-> Len(st.bubbles) + 1, value |-> draw.value,
                            display |-> draw.display])]

\* The locals the bubble loop can hold, from the ones in reach, for the
\* shuffled opTypes ops.
RECURSIVE BubbleLoop(_, _, _)
BubbleLoop(ops, reach, pool) ==
  LET step == reach \cup
              UNION { { SlotStep(st, draw) : draw \in SlotDraws(ops[st.i + 1], pool) } :
                      st \in { s \in reach : s.i < 3 } }
  IN IF step = reach THEN reach ELSE BubbleLoop(ops, step, pool)

\* The arrays generateBubbles(difficulty) can return; difficulty is not read.
generateBubbles(difficulty, shufflePool, randPool) ==
  UNION { { st.bubbles : st \in { s \in BubbleLoop(ops, { NoBubbles }, randPool) : s.i = 3 } } :
          ops \in ShuffleLoop(Len(OpTypes) - 1, { OpTypes }, shufflePool) }

\* ------------------------------------------------------------------------
\* Invisible maze: state
\* ------------------------------------------------------------------------

VARIABLES
  levelIdx,        \* useState(0)
  isPlaying,       \* useState(false)
  mode,            \* 'practice' | 'challenge'
  gridSize,        \* useState(3)
  playerPos,       \* useState({ r: 0, c: 0 })
  keyPos,          \* useState({ r: 0, c: 1 })
  doorPos,         \* useState({ r: 2, c: 2 })
  walls,           \* useState(new Set())
  revealedWalls,   \* useState(new Set())
  hasKey,          \* useState(false)
  attempts,        \* useState(0)
  timeLeft,        \* useState(0)
  gameStatus,      \* 'ready' | 'active' | 'hit' | 'won' | 'lost'
  pendingInit,     \* the setTimeout(initLevel, 50) callbacks not yet run,
                   \* each by the levelIdx its initLevel closure captured
  pendingKeys,     \* key presses handled while such a callback is pending
  gen,             \* the locals of the initLevel call that just returned
  lastEvent        \* the handler that ran last and the branch it took

mazeVars == << levelIdx, isPlaying, mode, gridSize, playerPos, keyPos, doorPos,
               walls, revealedWalls, hasKey, attempts, timeLeft, gameStatus,
               pendingInit, pendingKeys, gen, lastEvent >>

MazeInit ==
  /\ levelIdx = 0
  /\ isPlaying = FALSE
  /\ mode = "practice"
  /\ gridSize = 3
  /\ playerPos = Pos(0, 0)
  /\ keyPos = Pos(0, 1)
  /\ doorPos = Pos(2, 2)
  /\ walls = {}
  /\ revealedWalls = {}
  /\ hasKey = FALSE
  /\ attempts = 0
  /\ timeLeft = 0
  /\ gameStatus = "ready"
  /\ pendingInit = {}
  /\ pendingKeys = 0
  /\ gen = NoGen
  /\ lastEvent = "mount"

\* ------------------------------------------------------------------------
\* Arrow path puzzle: state
\* ------------------------------------------------------------------------

VARIABLES
  level,           \* useState(1)
  ppMode,          \* mode: 'practice' | 'assessment'
  tiles,           \* TileData[], as a function from (r, c) to the tile
  selectedTileId,  \* the selected tile's (r, c), or NoTile
  ppGridSize,      \* gridSize, useState(3)
  startRow,        \* useState(0)
  endRow,          \* useState(0)
  ppTimeLeft,      \* timeLeft, useState(0)
  gameState,       \* 'intro' | 'playing' | 'success' | 'fail'
  moveCount,       \* useState(0)
  ppLastEvent      \* ghost: the last handler that ran, with checkPath's outcome

pathVars == << level, ppMode, tiles, selectedTileId, ppGridSize, startRow, endRow,
               ppTimeLeft, gameState, moveCount, ppLastEvent >>

PathInit ==
  /\ level = 1
  /\ ppMode = "practice"
  /\ tiles = << >>
  /\ selectedTileId = NoTile
  /\ ppGridSize = 3
  /\ startRow = 0
  /\ endRow = 0
  /\ ppTimeLeft = 0
  /\ gameState = "intro"
  /\ moveCount = 0
  /\ ppLastEvent = "mount"

\* ------------------------------------------------------------------------
\* Bubble sort: state
\* ------------------------------------------------------------------------

VARIABLES
  phase,           \* useState(BubblePhase.Intro)
  currentBubbles,  \* useState([]), then the mock data of the Intro effect
  selectedIds,     \* useState([])
  qIndex,          \* useState(1)
  totalQ,          \* useState(1)
  timer,           \* useState(15)
  pendingAdvance,  \* the setTimeout(.., 300) callbacks not yet run, oldest
                   \* first, each with the phase and qIndex its
                   \* handleNextQuestion is closed over
  bLastEvent       \* the handler that ran last and the branch it took

bubbleVars == << phase, currentBubbles, selectedIds, qIndex, totalQ, timer,
                 pendingAdvance, bLastEvent >>

\* A string literal of the source used as a display.
Literal(text) == [text |-> text]

\* Mock data for intro
MockBubbles ==
  << [id |-> 1, value |-> 5, display |-> Display(2, "+", 3)],
     [id |-> 2, value |-> 6, display |-> Literal("6")],
     [id |-> 3, value |-> 8, display |-> Literal("")] >>

\* The state once the component is mounted and the Intro effect has run.
BubbleInit ==
  /\ phase = "Intro"
  /\ currentBubbles = MockBubbles
  /\ selectedIds = << >>
  /\ qIndex = 1
  /\ totalQ = 1
  /\ timer = 15
  /\ pendingAdvance = << >>
  /\ bLastEvent = "mount"

\* ------------------------------------------------------------------------
\* Functions applied on their own
\* ------------------------------------------------------------------------

VARIABLES
  probe            \* the arguments and the result of a function run on its own

\* No function is being run on its own.
ProbeIdle == [op |-> "idle"]

\* ------------------------------------------------------------------------
\* Invisible maze: initLevel
\* ------------------------------------------------------------------------

\* if (hasPath(..) && hasPath(..)) { validMaze = true; setKeyPos(tempKeyPos);
\*   setDoorPos(tempDoorPos); setWalls(newWalls); }
\* The three setters run only in the attempt that sets validMaze.
InstallMaze(g) ==
  IF g.validMaze
  THEN /\ keyPos' = g.tempKeyPos
       /\ doorPos' = g.tempDoorPos
       /\ walls' = g.newWalls
  ELSE UNCHANGED << keyPos, doorPos, walls >>

\* ResetPlayer without setHasKey(false) and setAttempts(0).
ResetPlayer_KeepsProgress(idx) ==
  /\ gridSize' = Level(idx).gridSize
  /\ playerPos' = StartPos(Level(idx).gridSize)
  /\ UNCHANGED << attempts, hasKey >>
  /\ revealedWalls' = {}
  /\ gameStatus' = "active"
  /\ timeLeft' = Level(idx).timeLimit

\* The player-state resets at the top of initLevel.
ResetPlayer(idx) ==
  /\ gridSize' = Level(idx).gridSize
  /\ playerPos' = StartPos(Level(idx).gridSize)
  /\ attempts' = 0
  /\ hasKey' = FALSE
  /\ revealedWalls' = {}
  /\ gameStatus' = "active"
  /\ timeLeft' = Level(idx).timeLimit

\* initLevel as closed over levelIdx = idx.
initLevel(idx) ==
  /\ ResetPlayer(idx)
  /\ \E g \in GenOutcomes[idx] :
       /\ gen' = g
       /\ InstallMaze(g)

\* ------------------------------------------------------------------------
\* Invisible maze: menu and overlay buttons
\* ------------------------------------------------------------------------

\* onClick={() => setMode('practice')} / setMode('challenge')
SetMode(m) ==
  /\ ~isPlaying
  /\ mode' = m
  /\ gen' = NoGen
  /\ lastEvent' = "setMode"
  /\ UNCHANGED << levelIdx, isPlaying, gridSize, playerPos, keyPos, doorPos, walls,
                  revealedWalls, hasKey, attempts, timeLeft, gameStatus, pendingInit,
                  pendingKeys >>
  /\ UNCHANGED << pathVars, bubbleVars, probe >>

\* onClick={() => setLevelIdx(idx)}
SetLevelIdx(idx) ==
  /\ ~isPlaying
  /\ levelIdx' = idx
  /\ gen' = NoGen
  /\ lastEvent' = "setLevelIdx"
  /\ UNCHANGED << isPlaying, mode, gridSize, playerPos, keyPos, doorPos, walls,
                  revealedWalls, hasKey, attempts, timeLeft, gameStatus, pendingInit,
                  pendingKeys >>
  /\ UNCHANGED << pathVars, bubbleVars, probe >>

\* Start Game: setIsPlaying(true); initLevel();
StartGame ==
  /\ ~isPlaying
  /\ isPlaying' = TRUE
  /\ initLevel(levelIdx)
  /\ lastEvent' = "startGame"
  /\ UNCHANGED << levelIdx, mode, pendingInit, pendingKeys >>
  /\ UNCHANGED << pathVars, bubbleVars, probe >>

\* Retry: onClick={initLevel}, rendered while gameStatus is 'won' or 'lost'.
Retry ==
  /\ isPlaying
  /\ gameStatus \in { "won", "lost" }
  /\ initLevel(levelIdx)
  /\ lastEvent' = "retry"
  /\ UNCHANGED << levelIdx, isPlaying, mode, pendingInit, pendingKeys >>
  /\ UNCHANGED << pathVars, bubbleVars, probe >>

\* Next Level: setLevelIdx(l => l + 1); setTimeout(initLevel, 50);
\* The initLevel passed to setTimeout is the one of the render that drew the
\* button: it is closed over the levelIdx from before the increment.
NextLevel ==
  /\ isPlaying
  /\ gameStatus = "won"
  /\ levelIdx < Len(LEVELS) - 1
  /\ levelIdx' = levelIdx + 1
  /\ pendingInit' = pendingInit \cup { levelIdx }
  /\ UNCHANGED pendingKeys
  /\ gen' = NoGen
  /\ lastEvent' = "nextLevel"
  /\ UNCHANGED << isPlaying, mode, gridSize, playerPos, keyPos, doorPos, walls,
                  revealedWalls, hasKey, attempts, timeLeft, gameStatus >>
  /\ UNCHANGED << pathVars, bubbleVars, probe >>

\* The setTimeout(initLevel, 50) callback fires; timeouts of equal delay
\* run in the order they were scheduled, the lower captured levelIdx first.
TimeoutInit(idx) ==
  /\ idx \in pendingInit
  /\ \A other \in pendingInit : idx <= other
  /\ pendingInit' = pendingInit \ { idx }
  /\ pendingKeys' = IF pendingInit' = {} THEN 0 ELSE pendingKeys
  /\ initLevel(idx)
  /\ lastEvent' = "timeoutInit"
  /\ UNCHANGED << levelIdx, isPlaying, mode >>
  /\ UNCHANGED << pathVars, bubbleVars, probe >>

\* ------------------------------------------------------------------------
\* Invisible maze: countdown and keyboard
\* ------------------------------------------------------------------------


\* TickOnce with `prev <= 0` for `prev <= 1`: the firing that reaches zero
\* does not end the game.
TickOnce_LateLoss(prev) ==
  IF prev <= 0 THEN [timeLeft |-> 0, lost |-> TRUE]
  ELSE [timeLeft |-> prev - 1, lost |-> FALSE]

\* setTimeLeft(prev => { if (prev <= 1) { setGameStatus('lost');
\*   clearInterval(timer); return 0; } return prev - 1; })
TickOnce(prev) ==
  IF prev <= 1 THEN [timeLeft |-> 0, lost |-> TRUE]
  ELSE [timeLeft |-> prev - 1, lost |-> FALSE]

\* n consecutive firings of the interval; it is cleared by the firing that
\* sets 'lost'.
RECURSIVE TickN(_, _)
TickN(prev, n) ==
  IF n = 0 THEN [timeLeft |-> prev, lost |-> FALSE]
  ELSE LET one == TickOnce(prev)
       IN IF one.lost THEN one ELSE TickN(one.timeLeft, n - 1)

\* What a burst of TickSeconds firings makes of each value timeLeft can hold.
TickBurst ==
  { [prev |-> t.prev, timeLeft |-> t.after.timeLeft, lost |-> t.after.lost] :
      t \in { [prev |-> p, after |-> TickN(p, TickSeconds)] :
               p \in UNION { 0 .. Level(idx).timeLimit : idx \in LevelIdxs } } }

\* The timer effect: if (gameStatus !== 'active' || mode === 'practice') return;
\* otherwise an interval runs until the effect is cleaned up.
TimerRunning == gameStatus = "active" /\ mode # "practice"

\* The interval fires a full second after the effect starts it, a pending
\* 50 ms timeout was scheduled before that and has run by then.
Tick ==
  /\ TimerRunning
  /\ pendingInit = {}
  /\ \E t \in TickBurst :
       /\ t.prev = timeLeft
       /\ timeLeft' = t.timeLeft
       /\ gameStatus' = IF t.lost THEN "lost" ELSE gameStatus
  /\ gen' = NoGen
  /\ lastEvent' = "tick"
  /\ UNCHANGED << levelIdx, isPlaying, mode, gridSize, playerPos, keyPos, doorPos,
                  walls, revealedWalls, hasKey, attempts, pendingInit, pendingKeys >>
  /\ UNCHANGED << pathVars, bubbleVars, probe >>

ArrowKeys == { "ArrowUp", "ArrowDown", "ArrowLeft", "ArrowRight" }

\* if (e.key === 'ArrowUp') nextR--; else if 'ArrowDown' nextR++;
\* else if 'ArrowLeft' nextC--; else if 'ArrowRight' nextC++;
NextCell(pos, key) ==
  CASE key = "ArrowUp"    -> Pos(pos.r - 1, pos.c)
    [] key = "ArrowDown"  -> Pos(pos.r + 1, pos.c)
    [] key = "ArrowLeft"  -> Pos(pos.r, pos.c - 1)
    [] key = "ArrowRight" -> Pos(pos.r, pos.c + 1)


\* OutOfBounds with `>` for `>=` in the two upper comparisons.
OutOfBounds_OffByOne(size, nxt) == nxt.r < 0 \/ nxt.r > size \/ nxt.c < 0 \/ nxt.c > size

\* if (nextR < 0 || nextR >= gridSize || nextC < 0 || nextC >= gridSize) return;
OutOfBounds(size, nxt) == nxt.r < 0 \/ nxt.r >= size \/ nxt.c < 0 \/ nxt.c >= size

\* WallHit looking up wallKey only.
WallHit_ForwardOnly(ws, pos, nxt) == WallKey(pos, nxt) \in ws

\* if (walls.has(wallKey) || walls.has(reverseKey))
WallHit(ws, pos, nxt) == WallKey(pos, nxt) \in ws \/ WallKey(nxt, pos) \in ws


\* HitWall replacing the revealed set by the two keys of this hit.
HitWall_ForgetsEarlier(nxt) ==
  /\ revealedWalls' = { WallKey(playerPos, nxt), WallKey(nxt, playerPos) }
  /\ attempts' = attempts + 1
  /\ playerPos' = Pos(gridSize - 1, 0)
  /\ UNCHANGED << hasKey, gameStatus >>

\* HitWall without the reset of the player to the start cell.
HitWall_NoReset(nxt) ==
  /\ revealedWalls' = revealedWalls \cup { WallKey(playerPos, nxt), WallKey(nxt, playerPos) }
  /\ attempts' = attempts + 1
  /\ UNCHANGED << playerPos, hasKey, gameStatus >>

\* Hit Wall: setRevealedWalls(prev => new Set(prev).add(wallKey).add(reverseKey));
\* setAttempts(prev => prev + 1); setPlayerPos({ r: gridSize - 1, c: 0 });
HitWall(nxt) ==
  /\ revealedWalls' = revealedWalls \cup { WallKey(playerPos, nxt), WallKey(nxt, playerPos) }
  /\ attempts' = attempts + 1
  /\ playerPos' = Pos(gridSize - 1, 0)
  /\ UNCHANGED << hasKey, gameStatus >>


\* MoveSuccess without the `if (hasKey)` around setGameStatus('won').
MoveSuccess_WinWithoutKey(nxt) ==
  /\ playerPos' = nxt
  /\ hasKey' = IF nxt = keyPos /\ ~hasKey THEN TRUE ELSE hasKey
  /\ gameStatus' = IF nxt = doorPos THEN "won" ELSE gameStatus
  /\ UNCHANGED << revealedWalls, attempts >>

\* Move Success: setPlayerPos(next); key check; door check.
MoveSuccess(nxt) ==
  /\ playerPos' = nxt
  /\ hasKey' = IF nxt = keyPos /\ ~hasKey THEN TRUE ELSE hasKey
  /\ gameStatus' = IF nxt = doorPos /\ hasKey THEN "won" ELSE gameStatus
  /\ UNCHANGED << revealedWalls, attempts >>

\* handleKeyDown for an arrow key; any other key returns at once.
handleKeyDown(key) ==
  /\ gameStatus = "active"
  /\ pendingInit # {} => pendingKeys < KeysWhilePending
  /\ pendingKeys' = IF pendingInit # {} THEN pendingKeys + 1 ELSE pendingKeys
  /\ LET nxt == NextCell(playerPos, key)
     IN IF OutOfBounds(gridSize, nxt)
        THEN /\ lastEvent' = "keydown:ignored"
             /\ UNCHANGED << playerPos, hasKey, gameStatus, revealedWalls, attempts >>
        ELSE IF WallHit(walls, playerPos, nxt)
        THEN /\ attempts < MaxAttempts
             /\ lastEvent' = "keydown:blocked"
             /\ HitWall(nxt)
        ELSE /\ lastEvent' = "keydown:moved"
             /\ MoveSuccess(nxt)
  /\ gen' = NoGen
  /\ UNCHANGED << levelIdx, isPlaying, mode, gridSize, keyPos, doorPos, walls,
                  timeLeft, pendingInit >>
  /\ UNCHANGED << pathVars, bubbleVars, probe >>

\* ------------------------------------------------------------------------
\* Arrow path puzzle: initLevel(lvl, isPractice)
\* ------------------------------------------------------------------------

ppInitLevel(lvl, isPractice) ==
  LET size == SizeOfLevel(lvl)
  IN /\ ppGridSize' = size
     /\ moveCount' = 0
     /\ gameState' = "playing"
     /\ startRow' \in RowDraws(size)
     /\ endRow' \in RowDraws(size)
     /\ ppTimeLeft' = TimeOfSize(size, isPractice)
     /\ tiles' \in NewTiles(size)
     /\ selectedTileId' = NoTile
     /\ ppLastEvent' = "init"

\* ------------------------------------------------------------------------
\* Arrow path puzzle: handlers
\* ------------------------------------------------------------------------

\* Practice Mode: setMode('practice'); initLevel(1, true)
StartPractice ==
  /\ gameState = "intro"
  /\ ppMode' = "practice"
  /\ ppInitLevel(1, TRUE)
  /\ UNCHANGED level
  /\ UNCHANGED << mazeVars, bubbleVars, probe >>

\* Start Assessment: setMode('assessment'); initLevel(2, false)
StartAssessment ==
  /\ gameState = "intro"
  /\ ppMode' = "assessment"
  /\ ppInitLevel(2, FALSE)
  /\ UNCHANGED level
  /\ UNCHANGED << mazeVars, bubbleVars, probe >>

\* A tile's onClick: gameState === 'playing' && setSelectedTileId(tile.id)
SelectTile(cell) ==
  /\ gameState = "playing"
  /\ HasTile(tiles, cell)
  /\ selectedTileId' = cell
  /\ ppLastEvent' = "select"
  /\ UNCHANGED << level, ppMode, tiles, ppGridSize, startRow, endRow, ppTimeLeft,
                  gameState, moveCount >>
  /\ UNCHANGED << mazeVars, bubbleVars, probe >>

\* MapSelected with the replacement returned for every tile of the grid.
MapSelected_EveryTile(ts, id, replacement) ==
  [cell \in DOMAIN ts |-> replacement]

\* prev.map(t => t.id === selectedTileId ? replacement : t)
MapSelected(ts, id, replacement) ==
  [cell \in DOMAIN ts |-> IF cell = id THEN replacement ELSE ts[cell]]

\* if (!selectedTileId || gameState !== 'playing') return;
CanEdit == selectedTileId # NoTile /\ gameState = "playing"

handleRotate ==
  /\ CanEdit
  /\ moveCount < MaxMoves
  /\ moveCount' = moveCount + 1
  /\ tiles' = MapSelected(tiles, selectedTileId, RotatedTile(tiles[selectedTileId]))
  /\ ppLastEvent' = "rotate"
  /\ UNCHANGED << level, ppMode, selectedTileId, ppGridSize, startRow, endRow,
                  ppTimeLeft, gameState >>
  /\ UNCHANGED << mazeVars, bubbleVars, probe >>

handleSwapType ==
  /\ CanEdit
  /\ moveCount < MaxMoves
  /\ moveCount' = moveCount + 1
  /\ \E typeIdx \in TypeIdxs :
       tiles' = MapSelected(tiles, selectedTileId, SwappedTile(typeIdx))
  /\ ppLastEvent' = "swap"
  /\ UNCHANGED << level, ppMode, selectedTileId, ppGridSize, startRow, endRow,
                  ppTimeLeft, gameState >>
  /\ UNCHANGED << mazeVars, bubbleVars, probe >>

\* checkPath with setGameState('fail') added to the branch that finds no path.
checkPath_FailsPuzzle ==
  /\ gameState # "intro"
  /\ \E outcome \in { CheckOutcome(tiles, ppGridSize, startRow, endRow) } :
       /\ gameState' = IF outcome = "success" THEN "success"
                       ELSE IF outcome = "nopath" THEN "fail" ELSE gameState
       /\ ppLastEvent' = outcome
  /\ UNCHANGED << level, ppMode, tiles, selectedTileId, ppGridSize, startRow, endRow,
                  ppTimeLeft, moveCount >>
  /\ UNCHANGED << mazeVars, bubbleVars, probe >>

\* The check button is rendered, without a guard, in every state but 'intro'.
checkPath ==
  /\ gameState # "intro"
  /\ \E outcome \in { CheckOutcome(tiles, ppGridSize, startRow, endRow) } :
       /\ gameState' = IF outcome = "success" THEN "success" ELSE gameState
       /\ ppLastEvent' = outcome
  /\ UNCHANGED << level, ppMode, tiles, selectedTileId, ppGridSize, startRow, endRow,
                  ppTimeLeft, moveCount >>
  /\ UNCHANGED << mazeVars, bubbleVars, probe >>

\* Next Level: setLevel(l => l + 1); initLevel(level + 1, mode === 'practice')
PathNextLevelClick ==
  /\ gameState = "success"
  /\ level' = level + 1
  /\ ppInitLevel(level + 1, ppMode = "practice")
  /\ UNCHANGED ppMode
  /\ UNCHANGED << mazeVars, bubbleVars, probe >>

\* Next Level in the game from mount, which is played up to level MaxLevel.
PathNextLevel ==
  /\ level < MaxLevel
  /\ PathNextLevelClick

\* Retry: initLevel(level, false)
PathRetry ==
  /\ gameState = "fail"
  /\ ppInitLevel(level, FALSE)
  /\ UNCHANGED << level, ppMode >>
  /\ UNCHANGED << mazeVars, bubbleVars, probe >>

\* setTimeLeft(prev => { if (prev <= 1) { setGameState('fail');
\*   clearInterval(interval); return 0; } return prev - 1; })
PathTickOnce(prev) ==
  IF prev <= 1 THEN [timeLeft |-> 0, fail |-> TRUE]
  ELSE [timeLeft |-> prev - 1, fail |-> FALSE]

\* n consecutive firings of the interval; it is cleared by the firing that
\* sets 'fail'.
RECURSIVE PathTickN(_, _)
PathTickN(prev, n) ==
  IF n = 0 THEN [timeLeft |-> prev, fail |-> FALSE]
  ELSE LET one == PathTickOnce(prev)
       IN IF one.fail THEN one ELSE PathTickN(one.timeLeft, n - 1)

\* What a burst of TickSeconds firings makes of each value timeLeft can hold.
PathTickBurst ==
  { [prev |-> t.prev, timeLeft |-> t.after.timeLeft, fail |-> t.after.fail] :
      t \in { [prev |-> p, after |-> PathTickN(p, TickSeconds)] :
               p \in 0 .. TimeOfSize(5, FALSE) } }

\* PathTimerRunning without the `mode === 'practice'` test.
PathTimerRunning_AnyMode == gameState = "playing"

\* The timer effect: if (gameState !== 'playing' || mode === 'practice') return;
PathTimerRunning == gameState = "playing" /\ ppMode # "practice"

PathTick ==
  /\ PathTimerRunning
  /\ \E t \in PathTickBurst :
       /\ t.prev = ppTimeLeft
       /\ ppTimeLeft' = t.timeLeft
       /\ gameState' = IF t.fail THEN "fail" ELSE gameState
  /\ ppLastEvent' = "tick"
  /\ UNCHANGED << level, ppMode, tiles, selectedTileId, ppGridSize, startRow, endRow,
                  moveCount >>
  /\ UNCHANGED << mazeVars, bubbleVars, probe >>

\* ------------------------------------------------------------------------
\* Bubble sort: handlers
\* ------------------------------------------------------------------------

\* The sets of bubbles a question of the game is drawn from, per difficulty
\* (evaluated once).
GameBubbleSets ==
  [ difficulty \in { 1, 2 } |-> generateBubbles(difficulty, GameShufflePool, GameRandPool) ]

GameBubbles(difficulty) == GameBubbleSets[difficulty]

\* A click or a tick that happens while 300 ms timeouts are pending is
\* noted on each of them.
NotedOn(pending, field) ==
  [ k \in 1 .. Len(pending) |-> [pending[k] EXCEPT ![field] = @ + 1] ]

\* A 300 ms timeout runs before the second interval tick after it was set
\* and before more than ClicksWhilePending clicks.
ClickInTime == \A k \in 1 .. Len(pendingAdvance) : pendingAdvance[k].clicks < ClicksWhilePending

TickInTime == \A k \in 1 .. Len(pendingAdvance) : pendingAdvance[k].ticks < 1

\* Intro modal: onClick={() => setPhase(BubblePhase.PracticeInfo)}
IntroNext ==
  /\ phase = "Intro"
  /\ ClickInTime
  /\ phase' = "PracticeInfo"
  /\ pendingAdvance' = NotedOn(pendingAdvance, "clicks")
  /\ bLastEvent' = "introNext"
  /\ UNCHANGED << currentBubbles, selectedIds, qIndex, totalQ, timer >>
  /\ UNCHANGED << mazeVars, pathVars, probe >>

\* startPractice: PRACTICE in the Practice Info modal, REPLAY in the
\* Practice End modal.
startPractice ==
  /\ phase \in { "PracticeInfo", "PracticeEnd" }
  /\ ClickInTime
  /\ phase' = "Practice"
  /\ qIndex' = 1
  /\ totalQ' = 2
  /\ currentBubbles' \in GameBubbles(1)
  /\ pendingAdvance' = NotedOn(pendingAdvance, "clicks")
  /\ bLastEvent' = "startPractice"
  /\ UNCHANGED << selectedIds, timer >>
  /\ UNCHANGED << mazeVars, pathVars, probe >>

\* startAssessment: START in the Practice End modal.
startAssessment ==
  /\ phase = "PracticeEnd"
  /\ ClickInTime
  /\ phase' = "Assessment"
  /\ qIndex' = 1
  /\ totalQ' = 2
  /\ timer' = 15
  /\ currentBubbles' \in GameBubbles(2)
  /\ pendingAdvance' = NotedOn(pendingAdvance, "clicks")
  /\ bLastEvent' = "startAssessment"
  /\ UNCHANGED << selectedIds >>
  /\ UNCHANGED << mazeVars, pathVars, probe >>

\* prev.filter(sid => sid !== id)
Without(ids, id) == SelectSeq(ids, LAMBDA sid : sid # id)

\* selectedIds.includes(id)
Includes(ids, id) == \E k \in 1 .. Len(ids) : ids[k] = id

\* handleBubbleClick with a deselection cancelling the pending timeouts.
handleBubbleClick_DeselectCancels(id) ==
  /\ phase \in { "Practice", "Assessment" }
  /\ ClickInTime
  /\ \E k \in 1 .. Len(currentBubbles) : currentBubbles[k].id = id
  /\ IF Includes(selectedIds, id)
     THEN /\ selectedIds' = Without(selectedIds, id)
          /\ pendingAdvance' = << >>
          /\ bLastEvent' = "click:deselect"
     ELSE /\ selectedIds' = Append(selectedIds, id)
          /\ IF Len(selectedIds) + 1 = 3
             THEN /\ Len(pendingAdvance) < MaxPending
                  /\ pendingAdvance' =
                       Append(NotedOn(pendingAdvance, "clicks"),
                              [phase |-> phase, qIndex |-> qIndex, clicks |-> 0, ticks |-> 0])
                  /\ bLastEvent' = "click:select:advance"
             ELSE /\ pendingAdvance' = NotedOn(pendingAdvance, "clicks")
                  /\ bLastEvent' = "click:select"
  /\ UNCHANGED << phase, currentBubbles, qIndex, totalQ, timer >>
  /\ UNCHANGED << mazeVars, pathVars, probe >>

\* handleBubbleClick(id) for a bubble of the question on screen.  The
\* bubbles take clicks in the Practice and Assessment phases; behind the
\* modals they are drawn with pointer-events-none.  The callback passed to
\* setTimeout calls the handleNextQuestion of the render the click was
\* handled in, closed over that render's phase and qIndex.
handleBubbleClick(id) ==
  /\ phase \in { "Practice", "Assessment" }
  /\ ClickInTime
  /\ \E k \in 1 .. Len(currentBubbles) : currentBubbles[k].id = id
  /\ IF Includes(selectedIds, id)
     THEN /\ selectedIds' = Without(selectedIds, id)
          /\ pendingAdvance' = NotedOn(pendingAdvance, "clicks")
          /\ bLastEvent' = "click:deselect"
     ELSE /\ selectedIds' = Append(selectedIds, id)
          /\ IF Len(selectedIds) + 1 = 3
             THEN /\ Len(pendingAdvance) < MaxPending
                  /\ pendingAdvance' =
                       Append(NotedOn(pendingAdvance, "clicks"),
                              [phase |-> phase, qIndex |-> qIndex, clicks |-> 0, ticks |-> 0])
                  /\ bLastEvent' = "click:select:advance"
             ELSE /\ pendingAdvance' = NotedOn(pendingAdvance, "clicks")
                  /\ bLastEvent' = "click:select"
  /\ UNCHANGED << phase, currentBubbles, qIndex, totalQ, timer >>
  /\ UNCHANGED << mazeVars, pathVars, probe >>

\* handleNextQuestion as closed over phase = cPhase and qIndex = cIndex;
\* setQIndex(prev => prev + 1) adds to the qIndex of the time it runs.
\* The setTimer(15) is left to the callers, which differ in what follows it.
handleNextQuestion(cPhase, cIndex) ==
  /\ selectedIds' = << >>
  /\ IF cPhase \in { "Practice", "Assessment" }
     THEN IF cIndex < 2
          THEN /\ qIndex' = qIndex + 1
               /\ currentBubbles' \in GameBubbles(IF cPhase = "Practice" THEN 1 ELSE 2)
               /\ UNCHANGED phase
          ELSE /\ phase' = IF cPhase = "Practice" THEN "PracticeEnd" ELSE "Complete"
               /\ UNCHANGED << qIndex, currentBubbles >>
     ELSE UNCHANGED << phase, qIndex, currentBubbles >>
  /\ UNCHANGED totalQ

\* The oldest pending setTimeout(() => { handleNextQuestion(); }, 300) runs.
AdvanceTimeout ==
  /\ pendingAdvance # << >>
  /\ handleNextQuestion(Head(pendingAdvance).phase, Head(pendingAdvance).qIndex)
  /\ timer' = 15
  /\ pendingAdvance' = Tail(pendingAdvance)
  /\ bLastEvent' = "advanceTimeout"
  /\ UNCHANGED << mazeVars, pathVars, probe >>

\* One firing of the assessment interval: setTimer(prev => { if (prev <= 1)
\* { handleNextQuestion(); return 15; } return prev - 1; }).  The effect
\* depends on handleNextQuestion, so the interval always calls the one of
\* the latest render.  The updater is taken to run once per firing.
BubbleTick ==
  /\ phase = "Assessment"
  /\ TickInTime
  /\ IF timer <= 1
     THEN /\ handleNextQuestion(phase, qIndex)
          /\ timer' = 15
          /\ bLastEvent' = "tick:advance"
     ELSE /\ timer' = timer - 1
          /\ bLastEvent' = "tick"
          /\ UNCHANGED << phase, currentBubbles, selectedIds, qIndex, totalQ >>
  /\ pendingAdvance' = NotedOn(pendingAdvance, "ticks")
  /\ UNCHANGED << mazeVars, pathVars, probe >>

\* ------------------------------------------------------------------------
\* Specifications
\* ------------------------------------------------------------------------

vars == << mazeVars, pathVars, bubbleVars, probe >>

Init == MazeInit /\ PathInit /\ BubbleInit /\ probe = ProbeIdle

MazeNext ==
  \/ \E m \in { "practice", "challenge" } : SetMode(m)
  \/ \E idx \in LevelIdxs : SetLevelIdx(idx)
  \/ StartGame
  \/ Retry
  \/ NextLevel
  \/ \E idx \in LevelIdxs : TimeoutInit(idx)
  \/ Tick
  \/ \E key \in ArrowKeys : handleKeyDown(key)

PathNext ==
  \/ StartPractice
  \/ StartAssessment
  \/ \E cell \in Selectable(ppGridSize) : SelectTile(cell)
  \/ handleRotate
  \/ handleSwapType
  \/ checkPath
  \/ PathNextLevel
  \/ PathRetry
  \/ PathTick

Next == MazeNext

\* The maze game, from mount.
Spec == Init /\ [][Next]_vars

\* The one-second interval keeps firing while the timer effect is active,
\* and a scheduled 50 ms timeout does run.
FairSpec ==
  /\ Spec
  /\ WF_vars(Tick)
  /\ WF_vars(\E idx \in LevelIdxs : TimeoutInit(idx))

\* The path puzzle, from mount.
PathSpec == Init /\ [][PathNext]_vars

\* The path puzzle with its interval running: while the timer effect has an
\* interval set, the interval fires.
PathFairSpec == PathSpec /\ WF_vars(PathTick)

BubbleNext ==
  \/ IntroNext
  \/ startPractice
  \/ startAssessment
  \/ \E id \in 1 .. 3 : handleBubbleClick(id)
  \/ AdvanceTimeout
  \/ BubbleTick

\* The bubble sort game, from mount.
BubbleSpec == Init /\ [][BubbleNext]_vars

\* The bubble sort game with its timers running: a pending 300 ms timeout
\* is run by the browser, whatever else happens.
BubbleFairSpec == BubbleSpec /\ WF_vars(AdvanceTimeout)

\* Any four flags, and any tile: TileData.connections is a boolean[] and
\* rotation one of 0, 90, 180, 270.
AnyConnections == { << u, r, d, l >> : u \in BOOLEAN, r \in BOOLEAN, d \in BOOLEAN, l \in BOOLEAN }

AnyTiles == { [connections |-> conn, rotation |-> rot] : conn \in AnyConnections, rot \in Rotations }

\* handleRotate's update of the selected tile, run on any tile.
RotateInit ==
  /\ MazeInit /\ PathInit /\ BubbleInit
  /\ probe \in { [op |-> "rotate", start |-> t, tile |-> t, steps |-> 0] : t \in AnyTiles }

RotateAgain ==
  /\ probe.op = "rotate"
  /\ probe.steps < MaxRotations
  /\ probe' = [probe EXCEPT !.tile = RotatedTile(@), !.steps = @ + 1]
  /\ UNCHANGED << mazeVars, pathVars, bubbleVars >>

RotateSpec == RotateInit /\ [][RotateAgain]_vars

\* The archetypes the grids of CheckInit are drawn from.
CheckTypes == { << 4, 1, 2, 3 >>[i] : i \in 1 .. CheckTypePool }

\* The state right after Practice Mode, for every 3 x 3 grid whose tiles are
\* drawn at rotation 0 from CheckTypes and every pair of rows.
CheckInit ==
  /\ MazeInit
  /\ BubbleInit
  /\ probe = ProbeIdle
  /\ level = 1
  /\ ppMode = "practice"
  /\ ppGridSize = SizeOfLevel(1)
  /\ moveCount = 0
  /\ gameState = "playing"
  /\ startRow \in 0 .. (SizeOfLevel(1) - 1)
  /\ endRow \in 0 .. (SizeOfLevel(1) - 1)
  /\ ppTimeLeft = TimeOfSize(SizeOfLevel(1), TRUE)
  /\ tiles \in [Cells(SizeOfLevel(1)) -> { NewTile(typeIdx, 0) : typeIdx \in CheckTypes }]
  /\ selectedTileId = NoTile
  /\ ppLastEvent = "init"

\* checkPath on those grids.
CheckSpec == CheckInit /\ [][checkPath]_vars

\* The wall-placement loop of initLevel run on its own for each level, and
\* the two wall look-ups (hasPath's and handleKeyDown's) applied to the set
\* it built, for an ordered pair of adjacent cells of the grid.
WallInit ==
  /\ MazeInit
  /\ PathInit /\ BubbleInit
  /\ probe \in { [op |-> "level", idx |-> idx] : idx \in LevelIdxs }

BuildWalls ==
  /\ probe.op = "level"
  /\ \E ws \in GenWalls(Level(probe.idx).gridSize, Level(probe.idx).wallCount) :
       probe' = [op |-> "walls", idx |-> probe.idx, walls |-> ws]
  /\ UNCHANGED << mazeVars, pathVars, bubbleVars >>

QueryEdge ==
  /\ probe.op = "walls"
  /\ \E a \in Cells(Level(probe.idx).gridSize), b \in Cells(Level(probe.idx).gridSize) :
       /\ CellDist(a, b) = 1
       /\ probe' = [op |-> "edge", idx |-> probe.idx, walls |-> probe.walls,
                    a |-> a, b |-> b,
                    open |-> NoWallBetween(probe.walls, a, b),
                    openBack |-> NoWallBetween(probe.walls, b, a),
                    hit |-> WallHit(probe.walls, a, b),
                    hitBack |-> WallHit(probe.walls, b, a)]
  /\ UNCHANGED << mazeVars, pathVars, bubbleVars >>

WallNext == BuildWalls \/ QueryEdge

WallSpec == WallInit /\ [][WallNext]_vars

\* hasPath run on its own: the edges its wall sets are taken from, and the
\* keys of these edges in both orientations.
QueryEdges(size) ==
  { d \in AllWallDraws(size) :
      Cardinality({ x \in AllWallDraws(size) : DrawBefore(size, x, d) }) < QueryWallPool }

QueryKeys(size) ==
  UNION { { WallKey(d.a, d.b), WallKey(d.b, d.a) } : d \in QueryEdges(size) }

\* hasPath(size, walls, start, end) for every grid size of LEVELS, every set
\* of these keys and every pair of cells, called both ways round.
HasPathInit ==
  /\ MazeInit
  /\ PathInit /\ BubbleInit
  /\ \E idx \in LevelIdxs :
       \E ws \in SUBSET QueryKeys(Level(idx).gridSize) :
         \E a \in Cells(Level(idx).gridSize), b \in Cells(Level(idx).gridSize) :
           probe = [op |-> "query", size |-> Level(idx).gridSize, walls |-> ws,
                    from |-> a, to |-> b]

QueryHasPath ==
  /\ probe.op = "query"
  /\ probe' = [op |-> "hasPath", size |-> probe.size, walls |-> probe.walls,
               from |-> probe.from, to |-> probe.to,
               result |-> hasPath(probe.size, probe.walls, probe.from, probe.to),
               back |-> hasPath(probe.size, probe.walls, probe.to, probe.from)]
  /\ UNCHANGED << mazeVars, pathVars, bubbleVars >>

HasPathSpec == HasPathInit /\ [][QueryHasPath]_vars

\* generateBubbles(difficulty) run on its own, one loop iteration at a
\* time: the shuffle loop at index si, then the bubble loop.  `draw` is the
\* val and disp of the last iteration, `rejected` whether it was skipped as
\* a duplicate, `rejections` how many iterations were.
GenerateInit ==
  /\ MazeInit /\ PathInit /\ BubbleInit
  /\ probe \in { [op |-> "generateBubbles", difficulty |-> d, opTypes |-> OpTypes,
                  si |-> Len(OpTypes) - 1, st |-> NoBubbles,
                  draw |-> [value |-> 0, display |-> Literal("")],
                  rejected |-> FALSE, rejections |-> 0] : d \in { 1, 2 } }

ShuffleIteration ==
  /\ probe.op = "generateBubbles"
  /\ probe.si > 0
  /\ \E j \in ShuffleDraws(probe.si, ShufflePool) :
       probe' = [probe EXCEPT !.opTypes = SwapOps(@, probe.si, j), !.si = @ - 1]
  /\ UNCHANGED << mazeVars, pathVars, bubbleVars >>

SlotIteration ==
  /\ probe.op = "generateBubbles"
  /\ probe.si = 0
  /\ probe.st.i < 3
  /\ \E draw \in SlotDraws(probe.opTypes[probe.st.i + 1], RandPool) :
       /\ draw.value \in probe.st.usedValues => probe.rejections < MaxRejections
       /\ probe' = [probe EXCEPT
                      !.st = SlotStep(@, draw),
                      !.draw = draw,
                      !.rejected = draw.value \in probe.st.usedValues,
                      !.rejections = IF draw.value \in probe.st.usedValues
                                     THEN @ + 1 ELSE @]
  /\ UNCHANGED << mazeVars, pathVars, bubbleVars >>

\* The path puzzle's level initialisation run on its own: from the intro
\* screen, from a solved level (Next Level) and from a timed-out assessment
\* level (Retry), at every level 1 .. LevelPool.  A solved level holds a
\* grid that checkPath accepts; a timed-out level has no time left.
LevelInit ==
  /\ MazeInit /\ BubbleInit
  /\ probe = ProbeIdle
  /\ \/ PathInit
     \/ /\ level \in 1 .. LevelPool
        /\ ppMode \in { "practice", "assessment" }
        /\ gameState \in { "success", "fail" }
        /\ gameState = "fail" => ppMode = "assessment"
        /\ ppGridSize = SizeOfLevel(level)
        /\ tiles \in NewTiles(SizeOfLevel(level))
        /\ startRow \in RowDraws(SizeOfLevel(level))
        /\ endRow \in RowDraws(SizeOfLevel(level))
        /\ gameState = "success" =>
             CheckOutcome(tiles, ppGridSize, startRow, endRow) = "success"
        /\ ppTimeLeft = IF gameState = "fail" THEN 0
                        ELSE TimeOfSize(SizeOfLevel(level), ppMode = "practice")
        /\ moveCount = 0
        /\ selectedTileId = NoTile
        /\ ppLastEvent = IF gameState = "fail" THEN "tick" ELSE "success"

LevelNext ==
  \/ StartPractice
  \/ StartAssessment
  \/ PathNextLevelClick
  \/ PathRetry

LevelSpec == LevelInit /\ [][LevelNext]_vars

GenerateNext == ShuffleIteration \/ SlotIteration

GenerateSpec == GenerateInit /\ [][GenerateNext]_vars

\* ------------------------------------------------------------------------
\* Properties of the invisible maze
\* ------------------------------------------------------------------------

\* Two cells are adjacent iff they differ by 1 in exactly one coordinate.
Adjacent(x, y) == CellDist(x, y) = 1

\* Movement between adjacent cells x and y is blocked by a wall of ws,
\* whichever way round the wall is recorded.
Blocked(ws, x, y) == << x.r, x.c, y.r, y.c >> \in ws \/ << y.r, y.c, x.r, x.c >> \in ws

\* The four cells next to x.
Around(x) == { Pos(x.r - 1, x.c), Pos(x.r + 1, x.c), Pos(x.r, x.c - 1), Pos(x.r, x.c + 1) }

\* The cells joined to a cell of S by open edges of the size x size grid.
RECURSIVE OpenClosure(_, _, _)
OpenClosure(size, ws, S) ==
  LET T == S \cup UNION { { y \in Around(x) \cap Cells(size) : ~Blocked(ws, x, y) } : x \in S }
  IN IF T = S THEN S ELSE OpenClosure(size, ws, T)

\* A path of open edges joins a and b.
Reachable(size, ws, a, b) == b \in OpenClosure(size, ws, {a})

\* The last candidate of an initLevel run admits a path start -> key and a
\* path key -> door on the current grid.
CandidateHasBothPaths ==
  /\ Reachable(gridSize, gen.newWalls, Pos(gridSize - 1, 0), gen.tempKeyPos)
  /\ Reachable(gridSize, gen.newWalls, gen.tempKeyPos, gen.tempDoorPos)

\* C1: when an initLevel run accepts a candidate, the key, door and walls it
\* installs are that candidate's and admit a path start -> key and a path
\* key -> door on the level's grid; a candidate without both paths is never
\* accepted, and a run that accepts none installs nothing.
C1_AcceptedMazeSolvable ==
  /\ [](gen.ran =>
          /\ gen.validMaze <=> CandidateHasBothPaths
          /\ gen.validMaze =>
               /\ keyPos = gen.tempKeyPos
               /\ doorPos = gen.tempDoorPos
               /\ walls = gen.newWalls
               /\ Reachable(gridSize, walls, Pos(gridSize - 1, 0), keyPos)
               /\ Reachable(gridSize, walls, keyPos, doorPos))
  /\ [][ (gen'.ran /\ ~gen'.validMaze) => UNCHANGED << keyPos, doorPos, walls >> ]_vars

\* An initLevel run has just accepted a candidate with two walls.
C1_Witness ==
  /\ gen.ran /\ gen.validMaze
  /\ walls = gen.newWalls
  /\ Cardinality(walls) >= 2

\* C2: after a run in which every attempt failed, the current
\* key, door and walls are those of the last candidate.
C2_LastCandidateInstalled ==
  (gen.ran /\ ~gen.validMaze) =>
     /\ keyPos = gen.tempKeyPos
     /\ doorPos = gen.tempDoorPos
     /\ walls = gen.newWalls

\* Every attempt of the first run failed: the mount-time key and door
\* are still in place.
C2_Witness ==
  /\ gen.ran /\ ~gen.validMaze
  /\ gameStatus = "active"
  /\ keyPos = Pos(0, 1) /\ doorPos = Pos(2, 2) /\ walls = {}

\* C3: a key press towards an in-grid cell behind a wall adds 1 to attempts,
\* puts the player on the start cell, reveals that edge, keeps the game
\* active and leaves key, door, walls and hasKey alone.
C3_WallHitResets ==
  [][ \A key \in ArrowKeys :
        LET nxt == NextCell(playerPos, key)
        IN (handleKeyDown(key) /\ nxt \in Cells(gridSize) /\ Blocked(walls, playerPos, nxt))
           => /\ attempts' = attempts + 1
              /\ playerPos' = Pos(gridSize - 1, 0)
              /\ revealedWalls \subseteq revealedWalls'
              /\ Blocked(revealedWalls', playerPos, nxt)
              /\ gameStatus' = "active"
              /\ UNCHANGED << keyPos, doorPos, walls, hasKey >>
    ]_vars

\* The player has just run into a wall away from the start cell.
C3_Witness ==
  /\ lastEvent = "keydown:blocked"
  /\ attempts = 1
  /\ playerPos = Pos(gridSize - 1, 0)
  /\ \E w \in revealedWalls : w \in walls /\ << w[1], w[2] >> # << gridSize - 1, 0 >>
                                          /\ << w[3], w[4] >> # << gridSize - 1, 0 >>

\* C4: an accepted move onto the door cell puts the player there and wins
\* exactly when the key was already held; without the key the game stays
\* active.
C4_DoorNeedsKey ==
  [][ \A key \in ArrowKeys :
        LET nxt == NextCell(playerPos, key)
        IN (handleKeyDown(key) /\ nxt \in Cells(gridSize) /\ ~Blocked(walls, playerPos, nxt)
              /\ nxt = doorPos)
           => /\ playerPos' = doorPos
              /\ (gameStatus' = "won") <=> hasKey
              /\ ~hasKey => gameStatus' = "active"
    ]_vars

\* The player has just stepped onto the door without the key.
C4_Witness ==
  /\ lastEvent = "keydown:moved"
  /\ playerPos = doorPos
  /\ ~hasKey
  /\ gameStatus = "active"

\* C5: the player stands on the door with the key exactly when the game is
\* won.
C5_WonIffAtDoorWithKey ==
  (playerPos = doorPos /\ hasKey) <=> (gameStatus = "won")

\* C6: once the game is started, the start cell, the key and the door are
\* three different cells of the current grid.
C6_StartKeyDoorDistinct ==
  isPlaying =>
    LET start == Pos(gridSize - 1, 0)
    IN /\ start # keyPos /\ start # doorPos /\ keyPos # doorPos
       /\ { start, keyPos, doorPos } \subseteq Cells(gridSize)

\* C7: in practice mode no step loses the game or lowers
\* timeLeft.
C7_PracticeNeverCountsDown ==
  [][ (isPlaying /\ mode = "practice") =>
        (gameStatus' # "lost" /\ timeLeft' >= timeLeft) ]_vars

\* What n one-second ticks make of timeLeft = t: each takes 1 off, and the
\* one that reaches zero ends the game.
AfterTicks(t, n) == IF t <= n THEN 0 ELSE t - n

\* C8: in challenge mode the ticks of an active game take one second each
\* off timeLeft and the tick that reaches zero sets 'lost'; a lost game has
\* timeLeft 0; and an active challenge game is eventually won or lost.
C8_ChallengeCountdown ==
  /\ [][ Tick =>
           /\ mode = "challenge" /\ gameStatus = "active"
           /\ timeLeft' = AfterTicks(timeLeft, TickSeconds)
           /\ gameStatus' = (IF timeLeft' = 0 THEN "lost" ELSE "active")
       ]_vars
  /\ [](gameStatus = "lost" => (timeLeft = 0 /\ mode = "challenge"))
  /\ ((gameStatus = "active" /\ mode = "challenge") ~> (gameStatus \in { "won", "lost" }))

\* The countdown of the 5 x 5 level has run out.
C8_Witness ==
  /\ gameStatus = "lost"
  /\ timeLeft = 0
  /\ gridSize = 5
  /\ lastEvent = "tick"

\* C9: a key press towards a cell outside the grid changes nothing.
C9_OutOfBoundsIgnored ==
  [][ \A key \in ArrowKeys :
        (handleKeyDown(key) /\ NextCell(playerPos, key) \notin Cells(gridSize))
        => UNCHANGED << playerPos, hasKey, attempts, revealedWalls, walls, gameStatus,
                        timeLeft, keyPos, doorPos, gridSize, levelIdx, mode, isPlaying >>
    ]_vars

\* The player has just pressed a key towards the outside from the top row.
C9_Witness ==
  /\ lastEvent = "keydown:ignored"
  /\ playerPos.r = 0

\* ------------------------------------------------------------------------
\* Properties of the arrow path puzzle
\* ------------------------------------------------------------------------

\* conn turned clockwise by k quarter turns.
RECURSIVE RotatedBy(_, _)
RotatedBy(conn, k) ==
  IF k = 0 THEN conn
  ELSE RotatedBy(<< conn[4], conn[1], conn[2], conn[3] >>, k - 1)

\* A tile shows an archetype turned by its own rotation.
IsRotatedArchetype(t) ==
  \E typeIdx \in TypeIdxs :
    t.connections = RotatedBy(TILE_TYPES[typeIdx].connections, t.rotation \div 90)

\* C10: in every reachable state each tile's connections are the base
\* connections of one of the four archetypes turned clockwise by rotation/90
\* quarter turns.
C10_TilesAreRotatedArchetypes ==
  \A cell \in DOMAIN tiles : IsRotatedArchetype(tiles[cell])

\* C11: rotating the selected tile maps its connections <<u, r, d, l>> to
\* <<l, u, r, d>> and its rotation to (rotation + 90) mod 360; a Corner
\* <<TRUE, TRUE, FALSE, FALSE>> at rotation 0 becomes
\* <<FALSE, TRUE, TRUE, FALSE>> at rotation 90.
C11_RotateOnce ==
  [][ handleRotate =>
        LET old == tiles[selectedTileId]
            new == tiles'[selectedTileId]
        IN /\ new.connections = << old.connections[4], old.connections[1],
                                   old.connections[2], old.connections[3] >>
           /\ new.rotation = (old.rotation + 90) % 360
           /\ (old = [connections |-> << TRUE, TRUE, FALSE, FALSE >>, rotation |-> 0])
                => (new = [connections |-> << FALSE, TRUE, TRUE, FALSE >>, rotation |-> 90])
    ]_vars

\* A Corner drawn at rotation 0 has just been rotated once.
C11_Witness ==
  /\ ppLastEvent = "rotate"
  /\ moveCount = 1
  /\ selectedTileId # NoTile
  /\ tiles[selectedTileId] = [connections |-> << FALSE, TRUE, TRUE, FALSE >>, rotation |-> 90]

\* C12: four rotations in a row give back the tile they started from,
\* connections and rotation alike, whatever the tile.
C12_FourRotationsIdentity ==
  (probe.op = "rotate" /\ probe.steps = 4) => probe.tile = probe.start

\* A one-armed tile at rotation 270 has been rotated four times.
C12_Witness ==
  /\ probe.op = "rotate"
  /\ probe.steps = 4
  /\ probe.start = [connections |-> << FALSE, TRUE, FALSE, FALSE >>, rotation |-> 270]
  /\ probe.tile = probe.start

\* C13: retyping the selected tile gives it the unrotated base connections
\* of one of the four archetypes and rotation 0, whatever it held before.
C13_RetypeResets ==
  [][ handleSwapType =>
        LET new == tiles'[selectedTileId]
        IN /\ new.rotation = 0
           /\ new.connections \in { << TRUE, FALSE, TRUE, FALSE >>, << TRUE, TRUE, FALSE, FALSE >>,
                                    << FALSE, TRUE, TRUE, TRUE >>, << TRUE, TRUE, TRUE, TRUE >> }
    ]_vars

\* The second move has just retyped the selected tile to a Tee, in a grid
\* whose tiles were drawn at rotation 90.
C13_Witness ==
  /\ ppLastEvent = "swap"
  /\ moveCount = 2
  /\ selectedTileId # NoTile
  /\ tiles[selectedTileId] = [connections |-> << FALSE, TRUE, TRUE, TRUE >>, rotation |-> 0]
  /\ \E cell \in DOMAIN tiles : cell # selectedTileId /\ tiles[cell].rotation = 90

\* C14: when the tile at (startRow, 0) has its Left flag closed, checkPath
\* ends with the 'no start connection' outcome, which no other check ends
\* with, and leaves gameState as it was, whatever the other tiles are.
C14_NoStartConnection ==
  [][ checkPath =>
        LET leftOpen == tiles[Pos(startRow, 0)].connections[4]
        IN /\ (ppLastEvent' = "nostart") <=> ~leftOpen
           /\ ~leftOpen => (gameState' = gameState /\ gameState' # "success")
    ]_vars

\* The check has just been refused at the start tile although the end
\* tile is open to the right.
C14_Witness ==
  /\ ppLastEvent = "nostart"
  /\ gameState = "playing"
  /\ ~tiles[Pos(startRow, 0)].connections[4]
  /\ tiles[Pos(endRow, ppGridSize - 1)].connections[2]

\* The flag of the tile at x that faces its neighbour y: <<Up, Right, Down,
\* Left>> are flags 1 to 4.
Facing(x, y) ==
  IF y.r = x.r - 1 THEN 1 ELSE IF y.c = x.c + 1 THEN 2 ELSE IF y.r = x.r + 1 THEN 3 ELSE 4

\* Tiles x and y of ts are adjacent and each has the flag facing the other open.
Joined(ts, x, y) ==
  /\ CellDist(x, y) = 1
  /\ ts[x].connections[Facing(x, y)]
  /\ ts[y].connections[Facing(y, x)]

\* The tiles linked to a tile of S by a sequence of joined tiles.
RECURSIVE JoinedClosure(_, _)
JoinedClosure(ts, S) ==
  LET T == S \cup { y \in DOMAIN ts : \E x \in S : Joined(ts, x, y) }
  IN IF T = S THEN S ELSE JoinedClosure(ts, T)

\* A sequence of joined tiles leads from (startRow, 0) to (endRow,
\* gridSize - 1) and that tile has its Right flag open.
ValidPath ==
  LET endTile == Pos(endRow, ppGridSize - 1)
  IN /\ endTile \in JoinedClosure(tiles, { Pos(startRow, 0) })
     /\ tiles[endTile].connections[2]

\* C15: on a grid whose start tile has its Left flag open, checkPath reports
\* success exactly when a sequence of pairwise joined in-grid tiles leads
\* from the start tile to the end tile and the end tile is open to the right.
C15_SuccessIffPath ==
  [][ (checkPath /\ tiles[Pos(startRow, 0)].connections[4]) =>
        /\ (ppLastEvent' = "success") <=> ValidPath
        /\ (gameState' = "success") <=> (ValidPath \/ gameState = "success")
    ]_vars

\* A check has just succeeded on a grid whose path has to leave the start
\* row, because the tile to the right of the start tile is closed to the left.
C15_Witness ==
  /\ ppLastEvent = "success"
  /\ gameState = "success"
  /\ startRow = endRow
  /\ ~tiles[Pos(startRow, 1)].connections[4]

\* C16: a checkPath that finds no valid path (the start tile closed to the
\* left, or no sequence of joined tiles to an end tile open to the right)
\* leaves tiles, gameState, moveCount, startRow, endRow and timeLeft as they
\* were; a playing puzzle stays playing.
C16_FailedCheckChangesNothing ==
  [][ (checkPath /\ ~(tiles[Pos(startRow, 0)].connections[4] /\ ValidPath)) =>
        /\ UNCHANGED << tiles, gameState, moveCount, startRow, endRow, ppTimeLeft >>
        /\ gameState = "playing" => gameState' = "playing"
    ]_vars

\* A timed puzzle has just been checked after two moves, its start tile is
\* open to the left, and no path was found.
C16_Witness ==
  /\ ppLastEvent = "nopath"
  /\ gameState = "playing"
  /\ ppMode = "assessment"
  /\ moveCount = 2
  /\ ppTimeLeft > 0

\* C17: for a wall set the generator built and two adjacent cells a and b of
\* the grid, hasPath's look-up sees the edge open from a to b exactly when
\* it sees it open from b to a, the move look-up blocks a -> b exactly when
\* it blocks b -> a, and the two look-ups agree on which edges are blocked.
C17_EdgeQuerySymmetric ==
  probe.op = "edge" =>
    /\ probe.open = probe.openBack
    /\ probe.hit = probe.hitBack
    /\ probe.hit = ~probe.open

\* A wall the generator stored as (a, b) has been queried from b to a and
\* found blocked.
C17_Witness ==
  /\ probe.op = "edge"
  /\ WallKey(probe.b, probe.a) \in probe.walls
  /\ WallKey(probe.a, probe.b) \notin probe.walls
  /\ probe.hit
  /\ ~probe.open

\* C18: hasPath(size, walls, from, to) is true exactly when `to` is reached
\* from `from` by steps between adjacent cells of the grid that cross no
\* edge of walls; the answer is the same with from and to exchanged, and
\* it is true for every pair of cells when walls is empty.
C18_HasPathIsReachability ==
  probe.op = "hasPath" =>
    /\ probe.result = Reachable(probe.size, probe.walls, probe.from, probe.to)
    /\ probe.result = probe.back
    /\ probe.walls = {} => probe.result

\* hasPath has answered false for two distinct cells, the walls around the
\* target all stored under the key that starts at the target.
C18_Witness ==
  /\ probe.op = "hasPath"
  /\ ~probe.result
  /\ probe.from # probe.to
  /\ \E k \in probe.walls : k[1] = probe.to.r /\ k[2] = probe.to.c
  /\ \A k \in probe.walls : ~(k[3] = probe.to.r /\ k[4] = probe.to.c)

\* The two cells a wall key names.
KeyCells(k) == << Pos(k[1], k[2]), Pos(k[3], k[4]) >>

\* C20: a wall set the generator built has at most wallCount keys, every
\* key joins two adjacent cells of the grid, and no edge is in it under
\* both of its keys.
C20_WallSetWellFormed ==
  probe.op \in { "walls", "edge" } =>
    LET size == Level(probe.idx).gridSize
    IN /\ Cardinality(probe.walls) <= Level(probe.idx).wallCount
       /\ \A k \in probe.walls :
            /\ KeyCells(k)[1] \in Cells(size)
            /\ KeyCells(k)[2] \in Cells(size)
            /\ Adjacent(KeyCells(k)[1], KeyCells(k)[2])
            /\ WallKey(KeyCells(k)[2], KeyCells(k)[1]) \notin probe.walls

\* The loop has placed exactly wallCount walls, more than one.
C20_Witness ==
  /\ probe.op = "walls"
  /\ Cardinality(probe.walls) = Level(probe.idx).wallCount
  /\ Cardinality(probe.walls) > 1

\* The key of the same edge in the other orientation.
ReverseKey(k) == << k[3], k[4], k[1], k[2] >>

\* C19 as stated: at all times every key of revealedWalls is a key of
\* walls, and a step that is not a regeneration of the maze removes no key
\* from revealedWalls.
C19_RevealedSubsetOfWalls ==
  /\ [](revealedWalls \subseteq walls)
  /\ [][ \/ revealedWalls \subseteq revealedWalls'
         \/ lastEvent' \in { "startGame", "retry", "timeoutInit" } ]_vars

\* C19: at all times every key of revealedWalls is a key of walls or the
\* reverse of a key of walls (a wall hit stores both keys of the edge, the
\* generator one), and a step that is not a regeneration of the maze
\* removes no key from revealedWalls.
C19_RevealedEdgesAreWalls ==
  /\ [](\A k \in revealedWalls : k \in walls \/ ReverseKey(k) \in walls)
  /\ [][ \/ revealedWalls \subseteq revealedWalls'
         \/ lastEvent' \in { "startGame", "retry", "timeoutInit" } ]_vars

\* Two different walls have been hit since the last regeneration and the
\* player has moved after the second hit: both edges are still revealed,
\* each under its two keys.
C19_Witness ==
  /\ Cardinality(revealedWalls) = 4
  /\ attempts = 2
  /\ lastEvent = "keydown:moved"
  /\ ~(revealedWalls \subseteq walls)

\* C21: every run of initLevel (Start Game, Retry, the timeout of Next
\* Level) leaves the player on the start cell (gridSize-1, 0) of the grid
\* it set up, with hasKey false, attempts 0, revealedWalls empty, status
\* 'active' and timeLeft equal to the time limit of the level it set up.
C21_GeneratorResetsPlayer ==
  [][ lastEvent' \in { "startGame", "retry", "timeoutInit" } =>
        /\ playerPos' = Pos(gridSize' - 1, 0)
        /\ hasKey' = FALSE
        /\ attempts' = 0
        /\ revealedWalls' = {}
        /\ gameStatus' = "active"
        /\ \E idx \in LevelIdxs : /\ gridSize' = Level(idx).gridSize
                                  /\ timeLeft' = Level(idx).timeLimit
    ]_vars

\* Retry has just run in practice mode, where only a won level offers it:
\* the key held at the door is gone again.
C21_Witness ==
  /\ lastEvent = "retry"
  /\ mode = "practice"
  /\ ~hasKey
  /\ attempts = 0
  /\ playerPos = Pos(gridSize - 1, 0)

\* generateBubbles has returned: both loops are over.
Generated == probe.op = "generateBubbles" /\ probe.si = 0 /\ probe.st.i = 3

\* The number an arithmetic display stands for.
Evaluate(d) ==
  CASE d.sign = "+" -> d.a + d.b
    [] d.sign = "-" -> d.a - d.b
    [] d.sign = "x" -> d.a * d.b
    [] d.sign = "/" -> d.a \div d.b

\* C23: the array generateBubbles returns has exactly 3 entries, their
\* values are pairwise distinct, and each display evaluates to its value;
\* for a division the dividend is divisor x quotient and the value is the
\* quotient.
C23_ThreeDistinctEvaluated ==
  Generated =>
    LET bs == probe.st.bubbles
    IN /\ Len(bs) = 3
       /\ \A m, n \in 1 .. 3 : m # n => bs[m].value # bs[n].value
       /\ \A m \in 1 .. 3 :
            /\ Evaluate(bs[m].display) = bs[m].value
            /\ bs[m].display.sign = "/" => bs[m].display.a = bs[m].display.b * bs[m].value

\* A set has been returned after an iteration was skipped for a duplicate
\* value, and it holds a division.
C23_Witness ==
  /\ Generated
  /\ probe.rejections > 0
  /\ \E m \in 1 .. 3 : probe.st.bubbles[m].display.sign = "/"

\* The sign the display of an operation type carries.
SignOf(opType) == << "+", "-", "x", "/" >>[opType + 1]

\* C24: the three bubbles returned carry three different operation signs,
\* the k-th that of the k-th shuffled operation type; an iteration skipped
\* for a duplicate value changes neither the slot index nor the accepted
\* bubbles, so the slot is drawn again with the same operation type; the
\* loop is over with exactly three accepted bubbles.
C24_ThreeKindsRetryInPlace ==
  /\ [](Generated =>
          /\ Len(probe.st.bubbles) = 3
          /\ Cardinality({ probe.st.bubbles[m].display.sign : m \in 1 .. 3 }) = 3
          /\ \A m \in 1 .. 3 :
               probe.st.bubbles[m].display.sign = SignOf(probe.opTypes[m]))
  /\ [][ (SlotIteration /\ probe'.rejected) =>
           /\ probe'.st = probe.st
           /\ probe'.opTypes = probe.opTypes
           /\ probe'.draw.display.sign = SignOf(probe.opTypes[probe.st.i + 1])
       ]_vars

\* A slot was drawn twice: a first draw repeated the value of an accepted
\* bubble, and the set was then completed.
C24_Witness ==
  /\ Generated
  /\ probe.rejections = 1
  /\ ~probe.rejected
  /\ Len(probe.st.bubbles) = 3

\* C25: every value drawn is a positive integer in the range of its
\* operation: a + b in 4..50 with a, b in 2..25; a - b in 1..25 with b in
\* 2..20 and a in b+1..b+25; a x b in 4..108 with a in 2..12 and b in 2..9;
\* a / b in 2..12 with b in 2..9 and a = b x value.
C25_ValuesInRange ==
  (probe.op = "generateBubbles" /\ probe.draw.display # Literal("")) =>
    LET v == probe.draw.value
        d == probe.draw.display
    IN /\ v > 0
       /\ d.sign = "+" => v \in 4 .. 50 /\ d.a \in 2 .. 25 /\ d.b \in 2 .. 25
       /\ d.sign = "-" => v \in 1 .. 25 /\ d.b \in 2 .. 20 /\ d.a \in (d.b + 1) .. (d.b + 25)
       /\ d.sign = "x" => v \in 4 .. 108 /\ d.a \in 2 .. 12 /\ d.b \in 2 .. 9
       /\ d.sign = "/" => v \in 2 .. 12 /\ d.b \in 2 .. 9 /\ d.a = d.b * v

\* A returned set holds the smallest difference and the largest product.
C25_Witness ==
  /\ Generated
  /\ \E m \in 1 .. 3 : probe.st.bubbles[m].value = 1
  /\ \E m \in 1 .. 3 : probe.st.bubbles[m].value = 108

\* C22: a delayed action set up for one instance never runs on a later one;
\* for the bubble sort game, a 300 ms auto-advance runs only while the
\* phase and the question it was scheduled in are still the current ones.
C22_NoStaleDelayedAction ==
  [][ AdvanceTimeout =>
        /\ Head(pendingAdvance).phase = phase
        /\ Head(pendingAdvance).qIndex = qIndex
    ]_vars

\* The value of the bubble of the current question with this id.
ValueOf(id) ==
  LET k == CHOOSE n \in 1 .. Len(currentBubbles) : currentBubbles[n].id = id
  IN currentBubbles[k].value

\* The bubbles were selected from the lowest to the highest value.
SelectedAscending(ids) ==
  \A k \in 1 .. (Len(ids) - 1) : ValueOf(ids[k]) < ValueOf(ids[k + 1])

\* C26: the click that completes a selection of three bubbles decides
\* whether the answer is correct: its outcome is "correct" exactly when
\* the bubbles were selected in ascending order of value.
C26_SelectionCompared ==
  [][ ((\E id \in 1 .. 3 : handleBubbleClick(id)) /\ Len(selectedIds') = 3) =>
        ((bLastEvent' = "click:select:correct") <=> SelectedAscending(selectedIds'))
    ]_vars

\* C27: after every run of initLevel, the one that follows Next Level
\* included, gridSize and timeLeft are those of LEVELS[levelIdx] for the
\* current levelIdx, and the candidate walls number at most its wallCount.
C27_GeneratedForCurrentLevel ==
  [][ lastEvent' \in { "startGame", "retry", "timeoutInit" } =>
        /\ gridSize' = Level(levelIdx').gridSize
        /\ timeLeft' = Level(levelIdx').timeLimit
        /\ Cardinality(gen'.newWalls) <= Level(levelIdx').wallCount
    ]_vars

\* C28: in every 'active' state of a game in play, the current walls on
\* the current grid admit a path from the start cell (gridSize-1, 0) to
\* keyPos and a path from keyPos to doorPos.
C28_ActiveMazeSolvable ==
  (isPlaying /\ gameStatus = "active") =>
    /\ Reachable(gridSize, walls, Pos(gridSize - 1, 0), keyPos)
    /\ Reachable(gridSize, walls, keyPos, doorPos)

\* C29: gameState becomes 'success' only from 'playing', and once it is
\* 'fail' only Retry changes it.
C29_FailIsFinal ==
  [][ /\ (gameState' = "success" /\ gameState # "success") => gameState = "playing"
      /\ (gameState = "fail" /\ gameState' # "fail") => PathRetry
    ]_vars

\* C30: while the phase is Practice or Assessment, qIndex is 1 or 2 and
\* does not exceed totalQ.
C30_TwoQuestionsPerSection ==
  phase \in { "Practice", "Assessment" } => (qIndex \in { 1, 2 } /\ qIndex <= totalQ)

\* The phase changes the bubble sort game is meant to make.
PhaseOrder ==
  { << "Intro", "PracticeInfo" >>, << "PracticeInfo", "Practice" >>,
    << "Practice", "PracticeEnd" >>, << "PracticeEnd", "Practice" >>,
    << "PracticeEnd", "Assessment" >>, << "Assessment", "Complete" >> }

\* C31: the phase only changes along Intro -> PracticeInfo -> Practice ->
\* PracticeEnd -> (Practice | Assessment) -> Complete; Complete is entered
\* only from Assessment, Assessment is never left for Practice or
\* PracticeEnd, and Complete is never left.
C31_PhasesMoveForward ==
  [][ phase' # phase => << phase, phase' >> \in PhaseOrder ]_vars

\* The question on screen is left: the next one is shown or the section ends.
Advances ==
  \/ qIndex' = qIndex + 1
  \/ phase \in { "Practice", "Assessment" } /\ phase' \in { "PracticeEnd", "Complete" }

\* C32: every selection of a third bubble is eventually followed by the run
\* of its auto-advance, which shows the next question or ends the section,
\* also when a bubble was deselected in between; and the question on
\* screen is left only by an auto-advance or by the assessment timer
\* reaching zero.
C32_ThirdSelectionAdvances ==
  /\ (bLastEvent = "click:select:advance") ~> (bLastEvent = "advanceTimeout")
  /\ [][ AdvanceTimeout =>
           (qIndex' = qIndex + 1 \/ phase' \in { "PracticeEnd", "Complete" }) ]_vars
  /\ [][ Advances => bLastEvent' \in { "advanceTimeout", "tick:advance" } ]_vars

\* A bubble was deselected while the auto-advance of a completed selection
\* is pending.
C32_Witness ==
  /\ bLastEvent = "click:deselect"
  /\ Len(selectedIds) = 2
  /\ Len(pendingAdvance) = 1

\* C33: after every level initialisation of the path puzzle, gridSize is 3
\* up to level 10, 4 for levels 11..20 and 5 above, for the level the
\* `level` state now holds; the tiles are those of the gridSize x gridSize
\* cells, one per cell; startRow and endRow are in 0 .. gridSize-1; and
\* timeLeft is 60, 90 or 120 by size in assessment mode and 0 in practice
\* mode.
C33_LevelInitialised ==
  [][ ppLastEvent' = "init" =>
        /\ ppGridSize' = (IF level' <= 10 THEN 3 ELSE IF level' <= 20 THEN 4 ELSE 5)
        /\ DOMAIN tiles' = { [r |-> r, c |-> c] : r \in 0 .. (ppGridSize' - 1),
                                                   c \in 0 .. (ppGridSize' - 1) }
        /\ startRow' \in 0 .. (ppGridSize' - 1)
        /\ endRow' \in 0 .. (ppGridSize' - 1)
        /\ ppTimeLeft' = (IF ppMode' = "practice" THEN 0
                          ELSE << 60, 90, 120 >>[ppGridSize' - 2])
    ]_vars

\* Next Level has led from level 20 to level 21 in assessment mode: the
\* grid is 5 x 5 with 120 s.
C33_Witness ==
  /\ ppLastEvent = "init"
  /\ level = 21
  /\ ppMode = "assessment"
  /\ ppGridSize = 5
  /\ ppTimeLeft = 120

\* C34: gameState is 'fail' only in assessment mode, and with the interval
\* firing every level being played in assessment mode eventually is
\* 'success' or 'fail'.
C34_AssessmentEnds ==
  /\ [](gameState = "fail" => ppMode = "assessment")
  /\ (ppMode = "assessment" /\ gameState = "playing") ~> (gameState \in { "success", "fail" })

\* An assessment level has timed out after two moves.
C34_Witness ==
  /\ gameState = "fail"
  /\ ppMode = "assessment"
  /\ ppTimeLeft = 0
  /\ moveCount = 2

\* A step of handleRotate or handleSwapType that got past its early return.
EditStep == ppLastEvent' \in { "rotate", "swap" } /\ pathVars' # pathVars

\* C35: tiles change only in a rotate or retype of the selected tile while the
\* game is being played, or in a level (re)initialisation; a rotate or retype
\* acts only with a tile selected and gameState 'playing', leaves the grid's
\* cells and every tile but the selected one as they were, gives the selected
\* tile the rotated or redrawn connections and rotation, and adds exactly 1
\* to moveCount.
C35_TilesChangeBySelectedEdit ==
  /\ [][ tiles' # tiles => (ppLastEvent' = "init" \/ EditStep) ]_vars
  /\ [][ EditStep =>
          /\ selectedTileId # NoTile
          /\ gameState = "playing"
          /\ moveCount' = moveCount + 1
          /\ DOMAIN tiles' = DOMAIN tiles
          /\ \A cell \in DOMAIN tiles \ { selectedTileId } : tiles'[cell] = tiles[cell]
          /\ \/ tiles'[selectedTileId] = RotatedTile(tiles[selectedTileId])
             \/ \E typeIdx \in TypeIdxs :
                  tiles'[selectedTileId] = SwappedTile(typeIdx)
          /\ UNCHANGED << selectedTileId, gameState, ppGridSize, startRow, endRow >> ]_vars

\* A second edit has been applied to the selected tile of a grid of several
\* tiles: the selected tile stands rotated and another tile does not.
C35_Witness ==
  /\ ppLastEvent = "rotate"
  /\ gameState = "playing"
  /\ moveCount = 2
  /\ selectedTileId # NoTile
  /\ tiles[selectedTileId].rotation = 90
  /\ \E cell \in DOMAIN tiles \ { selectedTileId } : tiles[cell].rotation # 90

====
